---- MODULE Spec2Model ----
(***************************************************************************)
(* Model of the server-side glue of the recipe generator:                  *)
(*   - processImage, uploadImageToS3, uploadImagesToS3 and connectDB       *)
(*     (src/src/lib/mongodb.ts)                                            *)
(*   - apiMiddleware (src/src/lib/apiMiddleware.ts)                        *)
(* The HTTP client, the S3 client, mongoose and next-auth are the          *)
(* environment: every event they can deliver is a nondeterministic input.  *)
(* An HTTP request delivers exactly one terminal event: the 'end' of its   *)
(* response or an 'error' of the request.                                  *)
(***************************************************************************)
EXTENDS Integers, Sequences, FiniteSets

\* ---------------------------------------------------------------- bounds
NumImages == 2
MaxRetries == 5

\* ------------------------------------------------------------- constants
\* processImage's default `retries` (mongodb.ts:46)
DefaultRetries == 3

Slots == 1..NumImages
None == "none"

\* response.statusCode values; 0 stands for a falsy (undefined) statusCode
Statuses == {0, 199, 200, 299, 300, 404}
\* bodies a response can carry (Buffer.concat of its chunks)
Bodies == {"imgA", "imgB"}

\* An Error: its `code` and its `message` (a sequence of words, so that
\* message.includes(word) is a search, not an equality).
MkError(code, message) == [code |-> code, message |-> message]
ErrDns == MkError("ENOTFOUND", <<"getaddrinfo", "ENOTFOUND", "host">>)
ErrReset == MkError("ECONNRESET", <<"socket", "hang", "up">>)
ErrWrapped == MkError(None, <<"fetch", "failed:", "ENOTFOUND">>)
ErrDenied == MkError("AccessDenied", <<"Access", "Denied">>)
\* transport errors of https.request, failures of s3.send
TransportErrors == {ErrDns, ErrReset}
SendErrors == {ErrWrapped, ErrDenied}
\* `${response.statusCode}` in the template of mongodb.ts:63
StatusText(status) ==
    CASE status = 0 -> "undefined"
      [] status = 199 -> "199"
      [] status = 200 -> "200"
      [] status = 299 -> "299"
      [] status = 300 -> "300"
      [] status = 404 -> "404"
ErrStatus(status) == MkError(None, <<"Image download failed. Status:", StatusText(status)>>)
ErrNoLink == MkError(None, <<"Image link is undefined">>)
ErrNoS3 == MkError(None, <<"Unable to configure S3">>)
NoError == MkError(None, <<>>)
\* what a promise of processImage holds: the body it resolved with or the
\* error it rejected with
Fulfilled(body) == [body |-> body, error |-> NoError]
Rejected(error) == [body |-> None, error |-> error]
NoValue == [body |-> None, error |-> NoError]

\* String.prototype.includes on a message
Includes(message, word) == \E k \in 1..Len(message) : message[k] = word

\* JavaScript truthiness of an optional string
TruthyStr(s) == s # None /\ s # ""

RemoveAt(s, k) == [j \in 1..(Len(s) - 1) |-> IF j < k THEN s[j] ELSE s[j + 1]]

VARIABLES
    \* processImage, one call per slot
    pi_caller,      \* "none" | "direct" | "upload": who called processImage
    pi_retries,     \* the `retries` argument
    pi_reqs,        \* the n of each request in flight
    pi_timers,      \* the n of each pending retry timer
    pi_settled,     \* "pending" | "resolved" | "rejected": the promise
    pi_value,       \* the body it resolved with / the error it rejected with
    pi_requests,    \* history: HTTP requests issued
    pi_failed,      \* history: attempts ended in a non-2xx status or an error
    pi_firstOk,     \* history: body of the first attempt that ended 2xx
    pi_settleCalls, \* history: calls of resolve / reject
    \* uploadImageToS3 / uploadImagesToS3
    env,            \* process.env: which AWS credentials are set
    images,         \* the input array
    up_pc,          \* per item: "idle" | "awaitDownload" | "awaitSend" | "done" | "rejected"
    up_result,      \* per item: the value its promise resolved with
    up_sends,       \* history: PutObject sends issued per item
    up_sendOk,      \* history: the item's send succeeded
    all_pc,         \* "idle" | "awaiting" | "returned"
    all_result,     \* what uploadImagesToS3 returned: null, or the array `items`
    \* apiMiddleware, one request through the wrapper
    mw_pc,          \* "idle" | "awaitSession" | "awaitHandler" | "done"
    mw_methods,     \* the allow-list given to apiMiddleware
    mw_method,      \* req.method
    mw_status,      \* the status the response was sent with, 0 before
    mw_body,        \* the error text it was sent with
    mw_lookups,     \* history: calls of getServerSession
    mw_session,     \* what getServerSession returned
    mw_handlerCalls, \* history: calls of the wrapped handler
    mw_handlerArg,  \* the third argument the handler received
    mw_failure,     \* history: the error raised while processing
    mw_promise,     \* "pending" | "fulfilled" | "rejected": the wrapper's promise
    \* connectDB
    isConnected,    \* the module-level flag (mongodb.ts:9)
    db_pc,          \* per caller: "idle" | "connecting" | "returned" | "threw"
    db_rs,          \* per caller: the readyState its connection had, -1 before
    db_thrown,      \* per caller: the message of the error it threw
    db_calls,       \* history: calls of connectDB
    connectCalls,   \* history: calls of mongoose.connect
    connectFailures \* history: calls of mongoose.connect that failed

piVars == <<pi_caller, pi_retries, pi_reqs, pi_timers, pi_settled, pi_value,
            pi_requests, pi_failed, pi_firstOk, pi_settleCalls>>
upVars == <<env, images, up_pc, up_result, up_sends, up_sendOk, all_pc, all_result>>
mwVars == <<mw_pc, mw_methods, mw_method, mw_status, mw_body, mw_lookups, mw_session,
            mw_handlerCalls, mw_handlerArg, mw_failure, mw_promise>>
dbVars == <<isConnected, db_pc, db_rs, db_thrown, db_calls, connectCalls,
            connectFailures>>
vars == <<piVars, upVars, mwVars, dbVars>>

\* ============================================================ processImage

\* mongodb.ts:56
Is2xx(status) == status # 0 /\ status >= 200 /\ status < 300

\* faulty variant: the retry test comes before the status test
OnEndRetryFirst(status, n) ==
    IF n > 0 THEN "retry"
    ELSE IF Is2xx(status) THEN "resolve"
    ELSE "reject"

\* faulty variant: the last failed response is dropped without reject
OnEndNoReject(status, n) ==
    IF Is2xx(status) THEN "resolve"
    ELSE IF n > 0 THEN "retry"
    ELSE "ignore"

\* mongodb.ts:56-64: the branch the response's 'end' handler takes
OnEnd(status, n) ==
    IF Is2xx(status) THEN "resolve"
    ELSE IF n > 0 THEN "retry"
    ELSE "reject"

\* faulty variant: a transport error rejects at once
OnErrorNoRetry(n) == "reject"

\* mongodb.ts:69-75: the branch the request's 'error' handler takes
OnError(n) == IF n > 0 THEN "retry" ELSE "reject"

\* the n the timer set at mongodb.ts:60 / :71 passes to attempt
NextN(n) == n - 1

PiInit ==
    /\ pi_caller = [i \in Slots |-> None]
    /\ pi_retries = [i \in Slots |-> 0]
    /\ pi_reqs = [i \in Slots |-> <<>>]
    /\ pi_timers = [i \in Slots |-> <<>>]
    /\ pi_settled = [i \in Slots |-> "pending"]
    /\ pi_value = [i \in Slots |-> NoValue]
    /\ pi_requests = [i \in Slots |-> 0]
    /\ pi_failed = [i \in Slots |-> 0]
    /\ pi_firstOk = [i \in Slots |-> None]
    /\ pi_settleCalls = [i \in Slots |-> 0]

\* resolve(v) / reject(v): only the first call settles the promise
Settle(i, how, v) ==
    /\ pi_settleCalls' = [pi_settleCalls EXCEPT ![i] = @ + 1]
    /\ IF pi_settled[i] = "pending"
       THEN /\ pi_settled' = [pi_settled EXCEPT ![i] = how]
            /\ pi_value' = [pi_value EXCEPT ![i] = v]
       ELSE UNCHANGED <<pi_settled, pi_value>>

\* what a handler does with the request at position k once its branch is known
Branch(i, k, br, okValue, errValue) ==
    LET n == pi_reqs[i][k] IN
    /\ pi_reqs' = [pi_reqs EXCEPT ![i] = RemoveAt(@, k)]
    /\ CASE br = "resolve" ->
              /\ Settle(i, "resolved", Fulfilled(okValue))
              /\ UNCHANGED pi_timers
         [] br = "retry" ->
              /\ pi_timers' = [pi_timers EXCEPT ![i] = Append(@, n)]
              /\ UNCHANGED <<pi_settled, pi_value, pi_settleCalls>>
         [] br = "reject" ->
              /\ Settle(i, "rejected", Rejected(errValue))
              /\ UNCHANGED pi_timers
         [] OTHER ->  \* a branch that neither settles nor retries
              UNCHANGED <<pi_timers, pi_settled, pi_value, pi_settleCalls>>

\* response.on('end'): the response of a request of call i is complete
ResponseEnd(i, status, body) ==
    \E k \in 1..Len(pi_reqs[i]) :
    /\ Branch(i, k, OnEnd(status, pi_reqs[i][k]), body, ErrStatus(status))
    /\ pi_failed' = [pi_failed EXCEPT ![i] = IF status \in 200..299 THEN @ ELSE @ + 1]
    /\ pi_firstOk' = [pi_firstOk EXCEPT ![i] =
                          IF status \in 200..299 /\ @ = None THEN body ELSE @]
    /\ UNCHANGED <<pi_caller, pi_retries, pi_requests>>
    /\ UNCHANGED <<upVars, mwVars, dbVars>>

\* request.on('error'): a request of call i failed in transport
RequestError(i, err) ==
    \E k \in 1..Len(pi_reqs[i]) :
    /\ Branch(i, k, OnError(pi_reqs[i][k]), None, err)
    /\ pi_failed' = [pi_failed EXCEPT ![i] = @ + 1]
    /\ UNCHANGED <<pi_caller, pi_retries, pi_requests, pi_firstOk>>
    /\ UNCHANGED <<upVars, mwVars, dbVars>>

\* a retry timer of call i fires: attempt(n - 1) issues a request
TimerFire(i) ==
    \E k \in 1..Len(pi_timers[i]) :
    /\ pi_timers' = [pi_timers EXCEPT ![i] = RemoveAt(@, k)]
    /\ pi_reqs' = [pi_reqs EXCEPT ![i] = Append(@, NextN(pi_timers[i][k]))]
    /\ pi_requests' = [pi_requests EXCEPT ![i] = @ + 1]
    /\ UNCHANGED <<pi_caller, pi_retries, pi_settled, pi_value, pi_failed,
                   pi_firstOk, pi_settleCalls>>
    /\ UNCHANGED <<upVars, mwVars, dbVars>>

\* a direct call processImage(url, retries, delay)
ProcessImageCall(i, retries) ==
    /\ pi_caller[i] = None
    /\ pi_caller' = [pi_caller EXCEPT ![i] = "direct"]
    /\ pi_retries' = [pi_retries EXCEPT ![i] = retries]
    /\ pi_reqs' = [pi_reqs EXCEPT ![i] = <<retries>>]
    /\ pi_requests' = [pi_requests EXCEPT ![i] = 1]
    /\ UNCHANGED <<pi_timers, pi_settled, pi_value, pi_failed, pi_firstOk,
                   pi_settleCalls>>
    /\ UNCHANGED <<upVars, mwVars, dbVars>>

\* ================================================= uploadImageToS3 / -ImagesToS3

\* originalImgLink values: undefined, the empty string, a URL
Links == {None, "", "https://img"}
Locations == {"recipes/a.png", "recipes/b.png"}
Items == [link : Links, location : Locations]
\* process.env: whether AWS_ACCESS_KEY_ID / AWS_SECRET_ACCESS_KEY are set
Envs == [keyId : BOOLEAN, secret : BOOLEAN]

\* faulty variant: one credential is enough
ConfigureS3Either(e) == IF e.keyId \/ e.secret THEN "S3Client" ELSE None

\* mongodb.ts:86-96
ConfigureS3(e) == IF e.keyId /\ e.secret THEN "S3Client" ELSE None

UploadResult(location, uploaded) == [location |-> location, uploaded |-> uploaded]
\* the slot of a promise that holds no result
NoResult == UploadResult(None, FALSE)

\* faulty variant: only the network error is downgraded, the others are rethrown
CatchUploadRethrow(error, location) ==
    IF error.code = "ENOTFOUND" \/ Includes(error.message, "ENOTFOUND")
    THEN [how |-> "return", value |-> UploadResult(location, FALSE)]
    ELSE [how |-> "throw", value |-> UploadResult(location, FALSE)]

\* mongodb.ts:125-135: what the catch block of uploadImageToS3 does with `error`
CatchUpload(error, location) ==
    IF error.code = "ENOTFOUND" \/ Includes(error.message, "ENOTFOUND")
    THEN [how |-> "return", value |-> UploadResult(location, FALSE)]
    ELSE [how |-> "return", value |-> UploadResult(location, FALSE)]

\* mongodb.ts:104-110: uploadImageToS3 up to its first await
\* "throw" with the error raised, or "download" once processImage was called
UploadSync(item, e) ==
    IF ~TruthyStr(item.link) THEN [how |-> "throw", error |-> ErrNoLink]
    ELSE IF ConfigureS3(e) = None THEN [how |-> "throw", error |-> ErrNoS3]
    ELSE [how |-> "download", error |-> None]

UpInit ==
    /\ env = [keyId |-> FALSE, secret |-> FALSE]
    /\ images = <<>>
    /\ up_pc = [i \in Slots |-> "idle"]
    /\ up_result = [i \in Slots |-> NoResult]
    /\ up_sends = [i \in Slots |-> 0]
    /\ up_sendOk = [i \in Slots |-> FALSE]
    /\ all_pc = "idle"
    /\ all_result = [null |-> FALSE, items |-> <<>>]

\* the promise of item i settles: `how` is "return" (resolved) or "throw"
Finish(i, outcome) ==
    IF outcome.how = "return"
    THEN /\ up_pc' = [up_pc EXCEPT ![i] = "done"]
         /\ up_result' = [up_result EXCEPT ![i] = outcome.value]
    ELSE /\ up_pc' = [up_pc EXCEPT ![i] = "rejected"]
         /\ UNCHANGED up_result

\* mongodb.ts:140-144: uploadImagesToS3(arr) maps uploadImageToS3 over the
\* array; each call runs to its first await before the next one starts
UploadImagesCall(arr, e) ==
    LET sync == [i \in Slots |-> IF i <= Len(arr) THEN UploadSync(arr[i], e)
                                  ELSE [how |-> "idle", error |-> None]]
        caught == [i \in Slots |-> IF sync[i].how = "throw"
                                    THEN CatchUpload(sync[i].error, arr[i].location)
                                    ELSE [how |-> "none", value |-> None]]
    IN
    /\ all_pc = "idle"
    /\ all_pc' = "awaiting"
    /\ images' = arr
    /\ env' = e
    /\ up_pc' = [i \in Slots |->
                    CASE sync[i].how = "download" -> "awaitDownload"
                      [] sync[i].how = "idle" -> "idle"
                      [] caught[i].how = "return" -> "done"
                      [] OTHER -> "rejected"]
    /\ up_result' = [i \in Slots |->
                    IF caught[i].how = "return" THEN caught[i].value ELSE NoResult]
    /\ pi_caller' = [i \in Slots |-> IF sync[i].how = "download" THEN "upload" ELSE None]
    /\ pi_retries' = [i \in Slots |-> IF sync[i].how = "download" THEN DefaultRetries ELSE 0]
    /\ pi_reqs' = [i \in Slots |-> IF sync[i].how = "download" THEN <<DefaultRetries>> ELSE <<>>]
    /\ pi_requests' = [i \in Slots |-> IF sync[i].how = "download" THEN 1 ELSE 0]
    /\ UNCHANGED <<pi_timers, pi_settled, pi_value, pi_failed, pi_firstOk, pi_settleCalls>>
    /\ UNCHANGED <<up_sends, up_sendOk, all_result>>
    /\ UNCHANGED <<mwVars, dbVars>>

\* mongodb.ts:110-122: `await processImage(...)` resumes; on a body the
\* PutObjectCommand is sent, on an error the catch block runs
ResumeAfterDownload(i) ==
    /\ up_pc[i] = "awaitDownload"
    /\ pi_settled[i] # "pending"
    /\ IF pi_settled[i] = "resolved"
       THEN /\ up_pc' = [up_pc EXCEPT ![i] = "awaitSend"]
            /\ up_sends' = [up_sends EXCEPT ![i] = @ + 1]
            /\ UNCHANGED up_result
       ELSE /\ Finish(i, CatchUpload(pi_value[i].error, images[i].location))
            /\ UNCHANGED up_sends
    /\ UNCHANGED <<env, images, up_sendOk, all_pc, all_result>>
    /\ UNCHANGED <<piVars, mwVars, dbVars>>

\* mongodb.ts:122-124: s3.send resolved
SendOk(i) ==
    /\ up_pc[i] = "awaitSend"
    /\ Finish(i, [how |-> "return", value |-> UploadResult(images[i].location, TRUE)])
    /\ up_sendOk' = [up_sendOk EXCEPT ![i] = TRUE]
    /\ UNCHANGED <<env, images, up_sends, all_pc, all_result>>
    /\ UNCHANGED <<piVars, mwVars, dbVars>>

\* mongodb.ts:122, 125-135: s3.send rejected
SendFails(i, err) ==
    /\ up_pc[i] = "awaitSend"
    /\ Finish(i, CatchUpload(err, images[i].location))
    /\ UNCHANGED <<env, images, up_sends, up_sendOk, all_pc, all_result>>
    /\ UNCHANGED <<piVars, mwVars, dbVars>>

\* faulty variant: the results are taken as soon as one item is done
PromiseAllFirstDone(pcs, results, len) ==
    LET done == {i \in 1..len : pcs[i] = "done"} IN
    IF \E i \in 1..len : pcs[i] = "rejected"
    THEN [ready |-> TRUE, null |-> TRUE, items |-> <<>>]
    ELSE IF done # {} \/ len = 0
         THEN [ready |-> TRUE, null |-> FALSE,
               items |-> [i \in 1..Cardinality(done) |->
                            results[CHOOSE j \in done : Cardinality({m \in done : m < j}) = i - 1]]]
    ELSE [ready |-> FALSE, null |-> FALSE, items |-> <<>>]

\* mongodb.ts:144-149: Promise.all settles: it rejects with the first item
\* that rejects (null is returned), else resolves with the results in input order
PromiseAll(pcs, results, len) ==
    IF \E i \in 1..len : pcs[i] = "rejected"
    THEN [ready |-> TRUE, null |-> TRUE, items |-> <<>>]
    ELSE IF \A i \in 1..len : pcs[i] = "done"
         THEN [ready |-> TRUE, null |-> FALSE, items |-> [i \in 1..len |-> results[i]]]
    ELSE [ready |-> FALSE, null |-> FALSE, items |-> <<>>]

UploadImagesReturn ==
    LET all == PromiseAll(up_pc, up_result, Len(images)) IN
    /\ all_pc = "awaiting"
    /\ all.ready
    /\ all_pc' = "returned"
    /\ all_result' = [null |-> all.null, items |-> all.items]
    /\ UNCHANGED <<env, images, up_pc, up_result, up_sends, up_sendOk>>
    /\ UNCHANGED <<piVars, mwVars, dbVars>>

\* ============================================================ apiMiddleware

HttpMethods == {"GET", "POST", "DELETE"}
\* req.method is optional in the typings
ReqMethods == HttpMethods \cup {None}
Sessions == {"sessionA", "sessionB"}
Null == "null"

\* apiMiddleware.ts:13
MethodAllowed(methods, method) == method \in methods

\* faulty variant: the session is not tested
HasSessionAlways(session) == TRUE

\* apiMiddleware.ts:20
HasSession(session) == session # Null

\* apiMiddleware.ts:25: `return handler(...)` hands the handler's promise to
\* the wrapper's promise: its rejection is not thrown inside the try block
HandlerRejectionCaught == FALSE

MwInit ==
    /\ mw_pc = "idle"
    /\ mw_methods = {}
    /\ mw_method = None
    /\ mw_status = 0
    /\ mw_body = None
    /\ mw_lookups = 0
    /\ mw_session = None
    /\ mw_handlerCalls = 0
    /\ mw_handlerArg = None
    /\ mw_failure = None
    /\ mw_promise = "pending"

\* res.status(code).json({ error: text }), then the async function returns
Respond(code, text) ==
    /\ mw_status' = code
    /\ mw_body' = text
    /\ mw_promise' = "fulfilled"
    /\ mw_pc' = "done"

\* apiMiddleware.ts:26-29
CatchMiddleware(what) ==
    /\ mw_failure' = what
    /\ Respond(500, "Internal server error in middleware")

\* apiMiddleware.ts:10-18: a request enters the wrapper returned by
\* apiMiddleware(methods, handler)
MwRequest(methods, method) ==
    /\ mw_pc = "idle"
    /\ mw_methods' = methods
    /\ mw_method' = method
    /\ IF ~MethodAllowed(methods, method)
       THEN /\ Respond(405, "Method not allowed")
            /\ UNCHANGED mw_lookups
       ELSE /\ mw_lookups' = mw_lookups + 1
            /\ mw_pc' = "awaitSession"
            /\ UNCHANGED <<mw_status, mw_body, mw_promise>>
    /\ UNCHANGED <<mw_session, mw_handlerCalls, mw_handlerArg, mw_failure>>
    /\ UNCHANGED <<piVars, upVars, dbVars>>

\* apiMiddleware.ts:18-25: getServerSession resolved with `session`; with a
\* session the handler is called and `how` is what it does: "return" a
\* value, "throw", or return a "promise" still pending
MwSession(session, how) ==
    /\ mw_pc = "awaitSession"
    /\ mw_session' = session
    /\ IF ~HasSession(session)
       THEN /\ Respond(401, "Unauthorized - please sign in")
            /\ UNCHANGED <<mw_handlerCalls, mw_handlerArg, mw_failure>>
       ELSE /\ mw_handlerCalls' = mw_handlerCalls + 1
            /\ mw_handlerArg' = session
            /\ CASE how = "return" ->
                      /\ mw_promise' = "fulfilled"
                      /\ mw_pc' = "done"
                      /\ UNCHANGED <<mw_status, mw_body, mw_failure>>
                 [] how = "throw" -> CatchMiddleware("handler threw")
                 [] how = "promise" ->
                      /\ mw_pc' = "awaitHandler"
                      /\ UNCHANGED <<mw_status, mw_body, mw_failure, mw_promise>>
    /\ UNCHANGED <<mw_methods, mw_method, mw_lookups>>
    /\ UNCHANGED <<piVars, upVars, dbVars>>

\* apiMiddleware.ts:18, 26-29: getServerSession rejected
MwSessionFails ==
    /\ mw_pc = "awaitSession"
    /\ CatchMiddleware("getServerSession failed")
    /\ UNCHANGED <<mw_methods, mw_method, mw_lookups, mw_session, mw_handlerCalls,
                   mw_handlerArg>>
    /\ UNCHANGED <<piVars, upVars, dbVars>>

\* apiMiddleware.ts:25: the promise the handler returned resolved
MwHandlerResolves ==
    /\ mw_pc = "awaitHandler"
    /\ mw_promise' = "fulfilled"
    /\ mw_pc' = "done"
    /\ UNCHANGED <<mw_methods, mw_method, mw_status, mw_body, mw_lookups, mw_session,
                   mw_handlerCalls, mw_handlerArg, mw_failure>>
    /\ UNCHANGED <<piVars, upVars, dbVars>>

\* apiMiddleware.ts:25: the promise the handler returned rejected
MwHandlerRejects ==
    /\ mw_pc = "awaitHandler"
    /\ IF HandlerRejectionCaught
       THEN CatchMiddleware("handler rejected")
       ELSE /\ mw_failure' = "handler rejected"
            /\ mw_promise' = "rejected"
            /\ mw_pc' = "done"
            /\ UNCHANGED <<mw_status, mw_body>>
    /\ UNCHANGED <<mw_methods, mw_method, mw_lookups, mw_session, mw_handlerCalls,
                   mw_handlerArg>>
    /\ UNCHANGED <<piVars, upVars, dbVars>>

\* ================================================================ connectDB

NumCallers == 2
MaxCalls == 4
Callers == 1..NumCallers
\* mongoose readyState: 0 disconnected, 1 connected, 2 connecting, 3 disconnecting
ReadyStates == 0..3

\* faulty variant: the guard is missing
AlreadyConnectedNever(flag) == FALSE

\* mongodb.ts:12
AlreadyConnected(flag) == flag

\* mongodb.ts:20: !!conn.connections[0].readyState
FlagOf(readyState) == readyState # 0

DbInit ==
    /\ isConnected = FALSE
    /\ db_pc = [c \in Callers |-> "idle"]
    /\ db_rs = [c \in Callers |-> -1]
    /\ db_thrown = [c \in Callers |-> None]
    /\ db_calls = 0
    /\ connectCalls = 0
    /\ connectFailures = 0

\* mongodb.ts:11-15: connectDB() up to its await
ConnectDBCall(c) ==
    /\ db_pc[c] # "connecting"
    /\ db_calls < MaxCalls
    /\ db_calls' = db_calls + 1
    /\ db_rs' = [db_rs EXCEPT ![c] = -1]
    /\ db_thrown' = [db_thrown EXCEPT ![c] = None]
    /\ IF AlreadyConnected(isConnected)
       THEN /\ db_pc' = [db_pc EXCEPT ![c] = "returned"]
            /\ UNCHANGED connectCalls
       ELSE /\ db_pc' = [db_pc EXCEPT ![c] = "connecting"]
            /\ connectCalls' = connectCalls + 1
    /\ UNCHANGED <<isConnected, connectFailures>>
    /\ UNCHANGED <<piVars, upVars, mwVars>>

\* mongodb.ts:15-21: mongoose.connect resolved
ConnectResolves(c, readyState) ==
    /\ db_pc[c] = "connecting"
    /\ isConnected' = FlagOf(readyState)
    /\ db_rs' = [db_rs EXCEPT ![c] = readyState]
    /\ db_pc' = [db_pc EXCEPT ![c] = "returned"]
    /\ UNCHANGED <<db_thrown, db_calls, connectCalls, connectFailures>>
    /\ UNCHANGED <<piVars, upVars, mwVars>>

\* mongodb.ts:22-25: mongoose.connect rejected
ConnectRejects(c) ==
    /\ db_pc[c] = "connecting"
    /\ db_thrown' = [db_thrown EXCEPT ![c] = "MongoDB connection failed"]
    /\ db_pc' = [db_pc EXCEPT ![c] = "threw"]
    /\ connectFailures' = connectFailures + 1
    /\ UNCHANGED <<isConnected, db_rs, db_calls, connectCalls>>
    /\ UNCHANGED <<piVars, upVars, mwVars>>

\* ========================================================== specifications

Init == PiInit /\ UpInit /\ MwInit /\ DbInit

\* processImage called directly, any `retries`
NextFetch ==
    \/ \E r \in 0..MaxRetries : ProcessImageCall(1, r)
    \/ \E s \in Statuses, b \in Bodies : ResponseEnd(1, s, b)
    \/ \E e \in TransportErrors : RequestError(1, e)
    \/ TimerFire(1)
SpecFetch == Init /\ [][NextFetch]_vars
FairFetch ==
    /\ WF_vars(\/ \E s \in Statuses, b \in Bodies : ResponseEnd(1, s, b)
               \/ \E e \in TransportErrors : RequestError(1, e))
    /\ WF_vars(TimerFire(1))
SpecFetchFair == SpecFetch /\ FairFetch

\* uploadImagesToS3 over an array of up to NumImages items
Arrays == UNION {[1..len -> Items] : len \in 0..NumImages}
\* the responses the image host gives in this scenario
UploadStatuses == {200, 404}
UploadBody == "imgA"
NextUpload ==
    \/ \E arr \in Arrays, e \in Envs : UploadImagesCall(arr, e)
    \/ \E i \in Slots, s \in UploadStatuses : ResponseEnd(i, s, UploadBody)
    \/ \E i \in Slots, e \in TransportErrors : RequestError(i, e)
    \/ \E i \in Slots : TimerFire(i)
    \/ \E i \in Slots : ResumeAfterDownload(i)
    \/ \E i \in Slots : SendOk(i)
    \/ \E i \in Slots, e \in SendErrors : SendFails(i, e)
    \/ UploadImagesReturn
SpecUpload == Init /\ [][NextUpload]_vars

\* one request through a wrapper made by apiMiddleware
NextMw ==
    \/ \E ms \in SUBSET HttpMethods, m \in ReqMethods : MwRequest(ms, m)
    \/ \E s \in Sessions \cup {Null}, how \in {"return", "throw", "promise"} : MwSession(s, how)
    \/ MwSessionFails
    \/ MwHandlerResolves
    \/ MwHandlerRejects
SpecMw == Init /\ [][NextMw]_vars

\* connectDB called by concurrent requests
NextDb ==
    \/ \E c \in Callers : ConnectDBCall(c)
    \/ \E c \in Callers, rs \in ReadyStates : ConnectResolves(c, rs)
    \/ \E c \in Callers : ConnectRejects(c)
SpecDb == Init /\ [][NextDb]_vars

\* connectDB called sequentially: a call starts when no other is in progress
NoCallInProgress == \A c \in Callers : db_pc[c] # "connecting"
NextDbSeq ==
    \/ \E c \in Callers : NoCallInProgress /\ ConnectDBCall(c)
    \/ \E c \in Callers, rs \in ReadyStates : ConnectResolves(c, rs)
    \/ \E c \in Callers : ConnectRejects(c)
SpecDbSeq == Init /\ [][NextDbSeq]_vars

\* ================================================================== claims

Called(i) == pi_caller[i] # None
Settled(i) == pi_settled[i] # "pending"
Quiet(i) == pi_reqs[i] = <<>> /\ pi_timers[i] = <<>>

\* C1: processImage rejects only on exhaustion: when its promise is rejected,
\* retries + 1 requests were issued and each ended in a non-2xx status or a
\* transport error; it never issues more than retries + 1 requests (4 with
\* the default retries = 3) and never has two requests in flight.
C1_RejectOnlyOnExhaustion ==
    \A i \in Slots :
        /\ pi_settled[i] = "rejected" =>
               /\ pi_requests[i] = pi_retries[i] + 1
               /\ pi_failed[i] = pi_retries[i] + 1
        /\ Called(i) => pi_requests[i] <= pi_retries[i] + 1
        /\ pi_retries[i] = DefaultRetries => pi_requests[i] <= 4
        /\ Len(pi_reqs[i]) <= 1

C1_Witness ==
    /\ pi_settled[1] = "rejected"
    /\ pi_retries[1] = DefaultRetries
    /\ pi_requests[1] = 4

\* C2: once an attempt has ended with a status in 200..299, the promise is
\* resolved with the body of the first such attempt, it is not rejected, and
\* no request is in flight and no retry timer is pending: the successful
\* attempt was the last request issued.
C2_ResolvesWithFirstOk ==
    \A i \in Slots :
        pi_firstOk[i] # None =>
            /\ pi_settled[i] = "resolved"
            /\ pi_value[i] = Fulfilled(pi_firstOk[i])
            /\ Quiet(i)
            /\ pi_requests[i] = pi_failed[i] + 1
            /\ pi_requests[i] <= pi_retries[i] + 1

C2_Witness ==
    /\ pi_firstOk[1] = "imgB"
    /\ pi_failed[1] = 2
    /\ pi_settled[1] = "resolved"

\* C10: with every request eventually delivering its response or an error
\* and every retry timer eventually firing, a call of processImage leads to
\* its promise being settled; resolve / reject is called exactly once, and
\* no request or timer is pending once the promise is settled.
C10_SettlesOnce ==
    /\ (Called(1) ~> Settled(1))
    /\ [](Settled(1) => Quiet(1) /\ pi_settleCalls[1] = 1)
    /\ [](pi_settleCalls[1] <= 1)

C10_Witness ==
    /\ Settled(1)
    /\ pi_requests[1] = 3
    /\ pi_settleCalls[1] = 1
    /\ Quiet(1)

Item(i) == images[i]
NoLink(i) == Item(i).link \in {None, ""}
NoCredentials == ~(env.keyId /\ env.secret)
DownloadFailed(i) == pi_settled[i] = "rejected" /\ up_pc[i] # "awaitDownload"
SendFailed(i) == up_sends[i] > 0 /\ up_pc[i] # "awaitSend" /\ ~up_sendOk[i]

\* C3: uploadImageToS3 never rejects its promise, and after every failure
\* (no image link, no S3 client, download failed, send failed) the promise
\* is resolved with { location: the input location, uploaded: false }.
C3_NeverPropagates ==
    \A i \in 1..Len(images) :
        /\ up_pc[i] # "rejected"
        /\ (NoLink(i) \/ NoCredentials \/ DownloadFailed(i) \/ SendFailed(i)) =>
               /\ up_pc[i] = "done"
               /\ up_result[i] = [location |-> Item(i).location, uploaded |-> FALSE]

C3_Witness ==
    \E i \in 1..Len(images) :
        /\ up_pc[i] = "done"
        /\ pi_settled[i] = "rejected"
        /\ pi_value[i].error.code = "ECONNRESET"
        /\ up_result[i] = [location |-> Item(i).location, uploaded |-> FALSE]

\* C7: uploadImageToS3 returns uploaded: true exactly when processImage
\* resolved and the PutObject send succeeded; the send is issued at most
\* once, only after processImage resolved, and never without an image link
\* or without AWS credentials.
C7_UploadedIffBothSucceed ==
    \A i \in 1..Len(images) :
        /\ up_pc[i] = "done" =>
               (up_result[i].uploaded <=> (pi_settled[i] = "resolved" /\ up_sendOk[i]))
        /\ up_sends[i] <= 1
        /\ up_sends[i] > 0 =>
               /\ pi_settled[i] = "resolved"
               /\ ~NoLink(i)
               /\ ~NoCredentials

C7_Witness ==
    \E i \in 1..Len(images) :
        /\ up_pc[i] = "done"
        /\ up_result[i].uploaded
        /\ pi_requests[i] = 2

\* C6: uploadImagesToS3 returns, once every item is done, a non-null array
\* as long as the input whose i-th entry carries the i-th input's location
\* and whose i-th `uploaded` is decided by the i-th item's own download and
\* send alone, whatever happened to the other items and in whatever order.
C6_IndependentResults ==
    all_pc = "returned" =>
        /\ ~all_result.null
        /\ Len(all_result.items) = Len(images)
        /\ \A i \in 1..Len(images) :
               /\ up_pc[i] = "done"
               /\ all_result.items[i].location = Item(i).location
               /\ all_result.items[i].uploaded <=>
                      (pi_settled[i] = "resolved" /\ up_sendOk[i])

C6_Witness ==
    /\ all_pc = "returned"
    /\ Len(images) = 2
    /\ Item(1).location = "recipes/b.png"
    /\ Item(2).location = "recipes/a.png"
    /\ ~all_result.items[1].uploaded
    /\ all_result.items[2].uploaded
    /\ pi_settled[1] = "rejected"

\* C4: the wrapped handler is invoked only for an allowed method and a
\* non-null session, which it receives as its third argument; a method not
\* in the allow-list gets 405 with no session lookup and no handler call; an
\* allowed method without a session gets 401 with no handler call.
C4_GuardsHandler ==
    /\ mw_handlerCalls > 0 =>
           /\ mw_handlerCalls = 1
           /\ mw_method \in mw_methods
           /\ mw_session \in Sessions
           /\ mw_handlerArg = mw_session
    /\ (mw_pc # "idle" /\ mw_method \notin mw_methods) =>
           /\ mw_status = 405
           /\ mw_lookups = 0
           /\ mw_handlerCalls = 0
    /\ (mw_method \in mw_methods /\ mw_session = Null) =>
           /\ mw_status = 401
           /\ mw_handlerCalls = 0

C4_Witness ==
    /\ mw_handlerCalls = 1
    /\ mw_handlerArg = "sessionB"
    /\ mw_method = "POST"
    /\ mw_pc = "done"

\* C5: whenever an error was raised while the wrapper processed a request
\* (getServerSession failed, the handler threw, the handler's promise
\* rejected) the response is 500 'Internal server error in middleware' and
\* the wrapper's promise is not rejected.
C5_ErrorsBecome500 ==
    mw_failure # None =>
        /\ mw_status = 500
        /\ mw_body = "Internal server error in middleware"
        /\ mw_promise # "rejected"

Connecting(c) == db_pc[c] = "connecting"

\* C8: in sequential calls of connectDB: a call that completes with a
\* non-zero readyState sets isConnected; while isConnected holds no call
\* invokes mongoose.connect and isConnected stays true; a call whose
\* mongoose.connect fails throws 'MongoDB connection failed' and leaves
\* isConnected false; and a call made while isConnected is false invokes
\* mongoose.connect.
C8_Step ==
    /\ isConnected => (isConnected' /\ connectCalls' = connectCalls)
    /\ \A c \in Callers :
           /\ (Connecting(c) /\ db_pc'[c] = "returned" /\ db_rs'[c] > 0) => isConnected'
           /\ (Connecting(c) /\ db_pc'[c] = "threw") =>
                  /\ db_thrown'[c] = "MongoDB connection failed"
                  /\ ~isConnected'
    /\ (~isConnected /\ db_calls' = db_calls + 1) => connectCalls' = connectCalls + 1
C8_SequentialConnect == [][C8_Step]_vars

C8_Witness ==
    /\ isConnected
    /\ connectFailures = 1
    /\ connectCalls = 2
    /\ db_calls = 3
    /\ \A c \in Callers : ~Connecting(c)

\* C9: under concurrent calls of connectDB, mongoose.connect is invoked at
\* most once while no connection attempt has failed.
C9_SingleConnect == connectFailures = 0 => connectCalls <= 1

====
